---- MODULE Spec2Model ----
(***************************************************************************)
(* Document ingestion and vector retrieval pipeline of eduplatform-api:     *)
(* the word-window chunker, the in-memory job trackers, the ingestion       *)
(* coordinator (background job and synchronous handlers), the vector store  *)
(* and the two similarity searches.                                         *)
(*                                                                          *)
(* A text is represented by its number of words; word k of a text is the    *)
(* number k, and a chunk is the pair <<first, last>> of the 1-based word    *)
(* positions it spans.  A vector is a point of 0..2 and the cosine         *)
(* distance of two vectors is their gap; a similarity s in [0, 1] is        *)
(* represented by the integer 2 * s (1 - d / 2 becomes 2 - d).              *)
(***************************************************************************)
EXTENDS Integers, Sequences, FiniteSets, TLC

\* ---------------------------------------------------------------- bounds
MaxTextWords == 8
MaxWords == 3
MaxChunkSize == 2
MaxJobs == 2
MaxRequests == 2
MaxPollJobs == 1
MaxStoreOps == 4
MaxLimit == 2
MaxPages == 2

\* values of the model
Paths == {"a.txt", "b.txt"}
Workspaces == {"w1", "w2"}
\* src/app/services/rag_service.py:291: cosine distance ranges over 0..2
MaxDistance == 2
\* a vector is a point of 0..MaxDistance, the distance of two is their gap
VectorData == 0..MaxDistance
\* the answers of the embedding provider
Emb == {0, MaxDistance}
None == <<>>
Some(x) == <<x>>

\* a document: one whose extraction raises, a text of n words and at least
\* 10 characters, or a text of one word and fewer than 10 characters
Docs == {[kind |-> "raises", n |-> 0], [kind |-> "short", n |-> 1]}
           \cup {[kind |-> "text", n |-> n] : n \in 0..MaxWords}

\* src/app/services/rag_service.py:120
batch_size == 5

\* the chunker is followed for at most this many chunks
MaxChunks == MaxTextWords + 2

Min(a, b) == IF a <= b THEN a ELSE b

VARIABLES
    chunk_size,       \* DocumentProcessor.chunk_size
    chunk_overlap,    \* DocumentProcessor.chunk_overlap
    unique_file_path, \* the table source_files has a unique constraint on file_path
    ck,               \* one run of the chunker, statement by statement
    processing_jobs,  \* RAGService.processing_jobs: job id -> ProcessingJob
    bg,               \* job id -> the background task process_document_background
    jobs,             \* PollingService.jobs: job id -> PollingJob
    poll,             \* job id -> the task PollingService._process_job
    db,               \* tables source_files and vectors, and their id sequences
    resp,             \* the response of the latest synchronous request
    found,            \* the result of the latest search
    pdf               \* one PDF file, and what a PDF extraction made of it

\* requests received so far: uploads, polling jobs, synchronous calls
Requests == Cardinality(DOMAIN processing_jobs) + Cardinality(DOMAIN jobs) + resp.seq

vars == <<chunk_size, chunk_overlap, unique_file_path, ck, processing_jobs, bg, jobs,
          poll, db, resp, found, pdf>>
config == <<chunk_size, chunk_overlap, unique_file_path>>


\* ---------------------------------------------------------------- chunker
\* words[start:end] of a text, as the word positions it holds
Slice(start, end) == <<start + 1, end>>

\* One iteration of the while loop: append words[start:end], move start.
LoopBody(n, start, chunks) ==
    LET end == Min(start + chunk_size, n)
    IN  [chunks |-> Append(chunks, Slice(start, end)),
         start  |-> end - chunk_overlap]

\* The loop is left when start >= len(words): by the break or the while test
LoopExits(n, start) == start >= n

\* chunk_text before the loop: [] for blank text, [text] when it fits
ChunkPrefix(n) ==
    IF n = 0 THEN [pc |-> "done", n |-> n, start |-> 0, chunks |-> <<>>]
    ELSE IF n <= chunk_size
         THEN [pc |-> "done", n |-> n, start |-> 0, chunks |-> <<Slice(0, n)>>]
         ELSE [pc |-> "loop", n |-> n, start |-> 0, chunks |-> <<>>]

ChunkCall ==
    /\ ck.pc = "idle"
    /\ ck' = ChunkPrefix(ck.n)
    /\ UNCHANGED <<config, pdf, processing_jobs, bg, jobs, poll, db, resp, found>>

ChunkIterate ==
    /\ ck.pc = "loop"
    /\ Len(ck.chunks) < MaxChunks
    /\ LET b == LoopBody(ck.n, ck.start, ck.chunks)
       IN  ck' = [ck EXCEPT !.chunks = b.chunks, !.start = b.start,
                            !.pc = IF LoopExits(ck.n, b.start) THEN "done" ELSE "loop"]
    /\ UNCHANGED <<config, pdf, processing_jobs, bg, jobs, poll, db, resp, found>>

\* chunk_text as a function of the text: its chunks, or hangs when the loop
\* comes back to a start it has already used (the state repeats for ever).
RECURSIVE ChunkLoop(_, _, _)
ChunkLoop(n, start, chunks) ==
    LET b == LoopBody(n, start, chunks)
    IN  IF LoopExits(n, b.start) THEN [hangs |-> FALSE, chunks |-> b.chunks]
        ELSE IF b.start <= start THEN [hangs |-> TRUE, chunks |-> b.chunks]
        ELSE ChunkLoop(n, b.start, b.chunks)

chunk_text(n) ==
    LET p == ChunkPrefix(n)
    IN  IF p.pc = "done" THEN [hangs |-> FALSE, chunks |-> p.chunks]
        ELSE ChunkLoop(n, 0, <<>>)


\* ---------------------------------------------------------------- job tracker
PENDING == "pending"
PROCESSING == "processing"
COMPLETED == "completed"
FAILED == "failed"

\* an update that writes status and message to every job of the table
update_job_status_every_job(pj, job_id, status, message, kwargs) ==
    [k \in DOMAIN pj |-> [pj[k] EXCEPT !.status = status, !.message = message]]

\* an update that sets status and message and leaves completed_at alone
update_job_status_no_stamp(pj, job_id, status, message, kwargs) ==
    IF job_id \in DOMAIN pj
    THEN [pj EXCEPT ![job_id] =
             [f \in DOMAIN @ |->
                 IF f \in DOMAIN kwargs THEN kwargs[f]
                 ELSE IF f = "status" THEN status
                 ELSE IF f = "message" THEN message ELSE @[f]]]
    ELSE pj

\* update_job_status: no effect on an unknown id; sets status and message,
\* stamps completed_at on a terminal status, then sets each keyword argument
\* that names a field of the job.
update_job_status(pj, job_id, status, message, kwargs) ==
    IF job_id \in DOMAIN pj
    THEN LET job == pj[job_id]
             j1 == [job EXCEPT !.status = status, !.message = message]
             j2 == IF status \in {COMPLETED, FAILED}
                   THEN [j1 EXCEPT !.completed_at = Some("utcnow")] ELSE j1
             j3 == [f \in DOMAIN j2 |->
                      IF f \in DOMAIN kwargs THEN kwargs[f] ELSE j2[f]]
         IN  [pj EXCEPT ![job_id] = j3]
    ELSE pj

NoKwargs == [x \in {} |-> None]

NewJob(file_name) ==
    [file_name |-> file_name, status |-> PENDING, message |-> "uploaded",
     completed_at |-> None, chunks_created |-> None, error_details |-> None]

\* get_processing_job: the job of the id, None for an id that has no job
get_processing_job(pj, job_id) ==
    IF job_id \in DOMAIN pj THEN Some(pj[job_id]) ELSE None

\* ---------------------------------------------------------------- store
\* rows of source_files with the given path
FilesAt(d, path) == {s \in d.source_files : s.file_path = path}

\* exists(path): document_exists
document_exists(d, path) == FilesAt(d, path) # {}

\* rows of vectors joined to the source file of the given path
VectorsAt(d, path) ==
    {v \in d.vectors : \E s \in FilesAt(d, path) : v.source_file_id = s.id}

get_document_vector_count(d, path) == Cardinality(VectorsAt(d, path))

\* scalar_one_or_none() raises MultipleResultsFound when the select of the
\* source file of a path finds more than one row
MultipleResultsFound(d, path) == Cardinality(FilesAt(d, path)) > 1

\* the foreign key of vectors.source_file_id: the row it names is stored
ForeignKeyHolds(d, source_file_id) == \E s \in d.source_files : s.id = source_file_id

\* a new row of source_files, under the next id of the sequence
add_source_file(d, path, workspace_id) ==
    [d EXCEPT !.source_files = @ \cup
                  {[id |-> d.next_file, file_path |-> path, workspace_id |-> workspace_id]},
              !.next_file = @ + 1]

\* INSERT INTO vectors
add_vector(d, source_file_id, chunk, e, by) ==
    [d EXCEPT !.vectors = @ \cup
         {[source_file_id |-> source_file_id, snippet |-> chunk,
           vector_data |-> e, by |-> by]}]

\* a delete that removes the source file and leaves its vectors
delete_source_file_no_cascade(d, path) ==
    [d EXCEPT !.source_files = d.source_files \ FilesAt(d, path)]

\* delete_source_file: the ORM delete cascades to the vectors of the file
delete_source_file(d, path) ==
    IF document_exists(d, path)
    THEN [d EXCEPT !.source_files = d.source_files \ FilesAt(d, path),
                   !.vectors = d.vectors \ VectorsAt(d, path)]
    ELSE d

\* insert_document_record with a provider that returned embedding e: the
\* source file of the path is fetched or created, the vector row is inserted
\* and the transaction committed.  by is the ingestion the row was written by.
insert_document_record(d, path, chunk, e, by) ==
    LET old  == FilesAt(d, path)
        sfid == IF old # {} THEN (CHOOSE s \in old : TRUE).id ELSE d.next_file
        d1   == IF old # {} THEN d ELSE add_source_file(d, path, None)
    IN  add_vector(d1, sfid, chunk, e, by)

\* an insert into a table vectors that has no foreign key
commit_document_record_no_foreign_key(d, t, chunk, e, by) ==
    IF t.created
    THEN [ok |-> TRUE,
          db |-> add_vector(add_source_file(d, t.path, None), d.next_file, chunk, e, by)]
    ELSE [ok |-> TRUE, db |-> add_vector(d, t.source_file_id, chunk, e, by)]

\* the second half of insert_document_record in a task that selected the
\* source file before it awaited the embedding.  A task that found no row
\* has flushed a row of its own: under the unique constraint the flush
\* fails when another row of the path is committed first, and the task
\* goes on with that row; without the constraint its own row is committed
\* next to the other.  A task that found a row inserts under its id, which
\* the foreign key rejects when the row is gone.
commit_document_record(d, t, chunk, e, by) ==
    LET old == FilesAt(d, t.path)
    IN  IF t.created
        THEN IF unique_file_path /\ old # {}
             THEN [ok |-> TRUE, db |-> add_vector(d, (CHOOSE s \in old : TRUE).id, chunk, e, by)]
             ELSE [ok |-> TRUE,
                   db |-> add_vector(add_source_file(d, t.path, None), d.next_file, chunk, e, by)]
        ELSE IF ForeignKeyHolds(d, t.source_file_id)
             THEN [ok |-> TRUE, db |-> add_vector(d, t.source_file_id, chunk, e, by)]
             ELSE [ok |-> FALSE, db |-> d]

\* which ingestion wrote a row, and for which path (not a column: kept to tell
\* the rows of one ingestion from those of another)
By(kind, id, path) == [op |-> <<kind, id>>, path |-> path]

EmptyDb == [source_files |-> {}, vectors |-> {}, next_file |-> 1]

\* ---------------------------------------------------------------- processors
\* a processor that takes the message of an extraction failure for the text
process_file_swallows(doc) ==
    [out |-> "chunks", chunks |-> <<Slice(0, 1)>>]

\* DocumentProcessor.process_file of app/services: extraction raises, the
\* chunker hangs, or the chunks are returned (possibly none)
process_file(doc) ==
    IF doc.kind = "raises" THEN [out |-> "raises", chunks |-> <<>>]
    ELSE LET c == chunk_text(doc.n)
         IN  IF c.hangs THEN [out |-> "hangs", chunks |-> <<>>]
             ELSE [out |-> "chunks", chunks |-> c.chunks]

\* ---------------------------------------------------------------- PDF extraction
\* the libraries: pdfplumber, and PyPDF2
Methods == {"pdfplumber", "PyPDF2"}

\* page.extract_text() of a library on a page: it raises, it returns no text
\* or whitespace, or it returns text
PageOutcomes == {"raises", "blank", "text"}

\* a PDF file: whether each library opens it, and what each makes of each page
PdfFiles ==
    [opens : [Methods -> BOOLEAN],
     pages : UNION {[1..n -> [Methods -> PageOutcomes]] : n \in 0..MaxPages}]

\* the text a library gathers when it skips the pages that raise and the
\* blank pages: the pages it has text for, in the order of the pages
PagesText(file, m) ==
    LET HasText(i) == file.pages[i][m] = "text"
    IN  [page \in 1..Len(SelectSeq([i \in 1..Len(file.pages) |-> i], HasText)) |->
            [by |-> m, page |-> SelectSeq([i \in 1..Len(file.pages) |-> i], HasText)[page]]]

\* DocumentProcessor._extract_text_from_pdf of app/file: pdfplumber, then
\* PyPDF2 when pdfplumber raised or gathered no text; ValueError when PyPDF2
\* raises or gathers no text either
file_extract_text_from_pdf(file) ==
    LET first  == PagesText(file, "pdfplumber")
        second == PagesText(file, "PyPDF2")
    IN  IF file.opens["pdfplumber"] /\ first # <<>>
        THEN [out |-> "text", text |-> first, tried |-> <<"pdfplumber">>]
        ELSE IF file.opens["PyPDF2"] /\ second # <<>>
        THEN [out |-> "text", text |-> second, tried |-> <<"pdfplumber", "PyPDF2">>]
        ELSE [out |-> "raises", text |-> <<>>, tried |-> <<"pdfplumber", "PyPDF2">>]

\* DocumentProcessor.extract_text_from_pdf of app/services: PyPDF2 alone; an
\* exception of the reader or of any page is raised as ValueError, and the
\* stripped text is returned as it is, empty when no page has text
extract_text_from_pdf(file) ==
    IF ~file.opens["PyPDF2"] \/ \E i \in 1..Len(file.pages) : file.pages[i]["PyPDF2"] = "raises"
    THEN [out |-> "raises", text |-> <<>>, tried |-> <<"PyPDF2">>]
    ELSE [out |-> "text", text |-> PagesText(file, "PyPDF2"), tried |-> <<"PyPDF2">>]

NoPdf == [pc |-> "off"]

\* the RAG endpoints read a PDF with the processor of app/services
services_extract ==
    /\ pdf.pc = "idle"
    /\ pdf' = [pdf EXCEPT !.pc = "done", !.methods = <<"PyPDF2">>,
                           !.result = extract_text_from_pdf(pdf.file)]
    /\ UNCHANGED <<config, ck, processing_jobs, bg, jobs, poll, db, resp, found>>

\* FileService reads a PDF with the processor of app/file
file_extract ==
    /\ pdf.pc = "idle"
    /\ pdf' = [pdf EXCEPT !.pc = "done", !.methods = <<"pdfplumber", "PyPDF2">>,
                           !.result = file_extract_text_from_pdf(pdf.file)]
    /\ UNCHANGED <<config, ck, processing_jobs, bg, jobs, poll, db, resp, found>>

\* ---------------------------------------------------------------- background job
Running(t) == t.pc \notin {"queued", "done"}

\* Another ingestion or delete of the path ran while the task was running.
Disturb(tasks, path, self) ==
    [j \in DOMAIN tasks |->
        IF j # self /\ tasks[j].path = path /\ Running(tasks[j])
        THEN [tasks[j] EXCEPT !.disturbed = TRUE] ELSE tasks[j]]

\* POST /rag/upload-file: create the job, queue the background task
upload_and_vectorize_file ==
    /\ Cardinality(DOMAIN processing_jobs) < MaxJobs
    /\ \E path \in Paths, doc \in Docs, replace \in BOOLEAN :
         LET id == Cardinality(DOMAIN processing_jobs) + 1
         IN  /\ processing_jobs' = (id :> NewJob(path)) @@ processing_jobs
             /\ bg' = (id :> [pc |-> "queued", path |-> path, doc |-> doc,
                              replace_existing |-> replace, chunks |-> <<>>,
                              total_processed |-> 0, existed |-> FALSE,
                              existing_count |-> 0, disturbed |-> FALSE,
                              source_file_id |-> 0, created |-> FALSE,
                              calls |-> <<>>]) @@ bg
    /\ UNCHANGED <<config, pdf, ck, jobs, poll, db, resp, found>>

\* process_document_background up to its first await: status PROCESSING,
\* extract and chunk, fail on an exception or on no chunks
BgExtract(j) ==
    /\ bg[j].pc = "queued"
    /\ LET pj1 == update_job_status(processing_jobs, j, PROCESSING, "extracting", NoKwargs)
           r   == process_file(bg[j].doc)
       IN  CASE r.out = "raises" ->
                  /\ processing_jobs' = update_job_status(pj1, j, FAILED, "failed",
                                            [error_details |-> Some("extraction")])
                  /\ bg' = [bg EXCEPT ![j].pc = "done"]
             [] r.out = "hangs" ->
                  /\ processing_jobs' = pj1
                  /\ bg' = [bg EXCEPT ![j].pc = "hung"]
             [] r.out = "chunks" /\ r.chunks = <<>> ->
                  /\ processing_jobs' = update_job_status(pj1, j, FAILED, "no text",
                                            [error_details |-> Some("empty")])
                  /\ bg' = [bg EXCEPT ![j].pc = "done"]
             [] OTHER ->
                  /\ processing_jobs' = update_job_status(pj1, j, PROCESSING, "embedding", NoKwargs)
                  /\ bg' = [bg EXCEPT ![j].pc = "count", ![j].chunks = r.chunks]
    /\ UNCHANGED <<config, pdf, ck, jobs, poll, db, resp, found>>

\* a progress update that already reports a chunk count
BatchOpen_reports_count(pj, j) ==
    update_job_status(pj, j, PROCESSING, "chunks", [chunks_created |-> Some(0)])

\* the progress update that opens a batch (no await before the first insert)
BatchOpen(pj, j) == update_job_status(pj, j, PROCESSING, "chunks", NoKwargs)

\* existing_count = await get_document_vector_count; conflict ends the job
BgCount(j) ==
    /\ bg[j].pc = "count"
    /\ LET t == bg[j]
           existing_count == get_document_vector_count(db, t.path)
           t1 == [t EXCEPT !.existed = document_exists(db, t.path),
                           !.existing_count = existing_count]
       IN  IF MultipleResultsFound(db, t.path)
           THEN /\ processing_jobs' = update_job_status(processing_jobs, j, FAILED, "failed",
                                          [error_details |-> Some("store")])
                /\ bg' = [bg EXCEPT ![j].pc = "done"]
           ELSE IF existing_count > 0 /\ ~t.replace_existing
           THEN /\ processing_jobs' = update_job_status(processing_jobs, j, FAILED, "exists",
                                          [error_details |-> Some("conflict")])
                /\ bg' = [bg EXCEPT ![j] = [t1 EXCEPT !.pc = "done"]]
           ELSE IF t.replace_existing
           THEN /\ bg' = [bg EXCEPT ![j] = [t1 EXCEPT !.pc = "delete"]]
                /\ UNCHANGED processing_jobs
           ELSE /\ bg' = [bg EXCEPT ![j] = [t1 EXCEPT !.pc = "insert"]]
                /\ processing_jobs' = BatchOpen(processing_jobs, j)
    /\ UNCHANGED <<config, pdf, ck, jobs, poll, db, resp, found>>

\* await delete_source_file, then the first batch is opened
BgDelete(j) ==
    /\ bg[j].pc = "delete"
    /\ IF MultipleResultsFound(db, bg[j].path)
       THEN /\ processing_jobs' = update_job_status(processing_jobs, j, FAILED, "failed",
                                      [error_details |-> Some("store")])
            /\ bg' = [bg EXCEPT ![j].pc = "done"]
            /\ UNCHANGED db
       ELSE /\ db' = delete_source_file(db, bg[j].path)
            /\ bg' = [Disturb(bg, bg[j].path, j) EXCEPT ![j].pc = "insert"]
            /\ processing_jobs' = BatchOpen(processing_jobs, j)
    /\ UNCHANGED <<config, pdf, ck, jobs, poll, resp, found>>

\* insert_document_record for the next chunk, up to the await of the
\* embedding: the source file of the path is selected, or a new row flushed,
\* and get_embedding is called for the chunk (calls lists the chunks that
\* get_embedding was called for, in the order of the calls)
BgSelect(j) ==
    /\ bg[j].pc = "insert"
    /\ LET t == bg[j]
           old == FilesAt(db, t.path)
       IN  IF MultipleResultsFound(db, t.path)
           THEN /\ processing_jobs' = update_job_status(processing_jobs, j, FAILED, "failed",
                                          [error_details |-> Some("store")])
                /\ bg' = [bg EXCEPT ![j].pc = "done"]
           ELSE /\ bg' = [bg EXCEPT ![j].pc = "embed",
                                    ![j].calls = Append(@, t.total_processed + 1),
                                    ![j].created = (old = {}),
                                    ![j].source_file_id =
                                        IF old = {} THEN 0 ELSE (CHOOSE s \in old : TRUE).id]
                /\ UNCHANGED processing_jobs
    /\ UNCHANGED <<config, pdf, ck, jobs, poll, db, resp, found>>

\* a loop that takes the chunks of the document from the last to the first
BgInsert_last_first(j) ==
    /\ bg[j].pc = "embed"
    /\ LET t == bg[j]
           k == t.total_processed + 1
       IN  \E e \in Emb :
             LET r == commit_document_record(db, t, t.chunks[Len(t.chunks) + 1 - k], e,
                                             By("job", j, t.path))
             IN  IF r.ok
                 THEN /\ db' = r.db
                      /\ bg' = [Disturb(bg, t.path, j) EXCEPT
                                   ![j].total_processed = k,
                                   ![j].pc = IF k % batch_size = 0 \/ k = Len(t.chunks)
                                             THEN "sleep" ELSE "insert"]
                      /\ UNCHANGED processing_jobs
                 ELSE /\ processing_jobs' = update_job_status(processing_jobs, j, FAILED,
                                                "failed", [error_details |-> Some("store")])
                      /\ bg' = [bg EXCEPT ![j].pc = "done"]
                      /\ UNCHANGED db
    /\ UNCHANGED <<config, pdf, ck, jobs, poll, resp, found>>

\* insert_document_record after the embedding came back: the vector row is
\* inserted and the transaction committed, or the insert raises
BgInsert(j) ==
    /\ bg[j].pc = "embed"
    /\ LET t == bg[j]
           k == t.total_processed + 1
       IN  \E e \in Emb :
             LET r == commit_document_record(db, t, t.chunks[k], e, By("job", j, t.path))
             IN  IF r.ok
                 THEN /\ db' = r.db
                      /\ bg' = [Disturb(bg, t.path, j) EXCEPT
                                   ![j].total_processed = k,
                                   ![j].pc = IF k % batch_size = 0 \/ k = Len(t.chunks)
                                             THEN "sleep" ELSE "insert"]
                      /\ UNCHANGED processing_jobs
                 ELSE /\ processing_jobs' = update_job_status(processing_jobs, j, FAILED,
                                                "failed", [error_details |-> Some("store")])
                      /\ bg' = [bg EXCEPT ![j].pc = "done"]
                      /\ UNCHANGED db
    /\ UNCHANGED <<config, pdf, ck, jobs, poll, resp, found>>

\* a failure handler that marks the job FAILED and lets the loop go on
BgInsertFails_resumes(j) ==
    /\ bg[j].pc \in {"insert", "embed"}
    /\ processing_jobs[j].status # FAILED
    /\ processing_jobs' = update_job_status(processing_jobs, j, FAILED, "failed",
                              [error_details |-> Some("provider")])
    /\ UNCHANGED <<config, pdf, ck, bg, jobs, poll, db, resp, found>>

\* a failure handler that removes the rows the job has written
BgInsertFails_rolls_back(j) ==
    /\ bg[j].pc \in {"insert", "embed"}
    /\ processing_jobs' = update_job_status(processing_jobs, j, FAILED, "failed",
                              [error_details |-> Some("provider")])
    /\ bg' = [bg EXCEPT ![j].pc = "done"]
    /\ db' = [db EXCEPT !.vectors = {v \in @ : v.by # By("job", j, bg[j].path)}]
    /\ UNCHANGED <<config, pdf, ck, jobs, poll, resp, found>>

\* a failure handler that calls the provider a second time for the chunk
\* before it fails the job
BgInsertFails_retries(j) ==
    /\ bg[j].pc \in {"insert", "embed"}
    /\ IF bg[j].pc = "embed" /\ Len(bg[j].calls) = bg[j].total_processed + 1
       THEN /\ bg' = [bg EXCEPT ![j].calls = Append(@, bg[j].total_processed + 1)]
            /\ UNCHANGED processing_jobs
       ELSE /\ processing_jobs' = update_job_status(processing_jobs, j, FAILED, "failed",
                                      [error_details |-> Some("provider")])
            /\ bg' = [bg EXCEPT ![j].pc = "done"]
    /\ UNCHANGED <<config, pdf, ck, jobs, poll, db, resp, found>>

\* the embedding provider or the store raises inside insert_document_record:
\* nothing of this record is committed, the except clause fails the job
BgInsertFails(j) ==
    /\ bg[j].pc \in {"insert", "embed"}
    /\ processing_jobs' = update_job_status(processing_jobs, j, FAILED, "failed",
                              [error_details |-> Some("provider")])
    /\ bg' = [bg EXCEPT ![j].pc = "done"]
    /\ UNCHANGED <<config, pdf, ck, jobs, poll, db, resp, found>>

\* a completion that reports the number of batches instead of chunks
BgSleep_counts_batches(j) ==
    /\ bg[j].pc = "sleep"
    /\ LET t == bg[j]
       IN  IF t.total_processed < Len(t.chunks)
           THEN /\ processing_jobs' = BatchOpen(processing_jobs, j)
                /\ bg' = [bg EXCEPT ![j].pc = "insert"]
           ELSE /\ processing_jobs' = update_job_status(processing_jobs, j, COMPLETED, "processed",
                                          [chunks_created |-> Some((Len(t.chunks) + batch_size - 1) \div batch_size)])
                /\ bg' = [bg EXCEPT ![j].pc = "done"]
    /\ UNCHANGED <<config, pdf, ck, jobs, poll, db, resp, found>>

\* after asyncio.sleep: the next batch, or COMPLETED with the chunk count
BgSleep(j) ==
    /\ bg[j].pc = "sleep"
    /\ LET t == bg[j]
       IN  IF t.total_processed < Len(t.chunks)
           THEN /\ processing_jobs' = BatchOpen(processing_jobs, j)
                /\ bg' = [bg EXCEPT ![j].pc = "insert"]
           ELSE /\ processing_jobs' = update_job_status(processing_jobs, j, COMPLETED, "processed",
                                          [chunks_created |-> Some(Len(t.chunks))])
                /\ bg' = [bg EXCEPT ![j].pc = "done"]
    /\ UNCHANGED <<config, pdf, ck, jobs, poll, db, resp, found>>

BgStep(j) ==
    \/ BgExtract(j) \/ BgCount(j) \/ BgDelete(j)
    \/ BgSelect(j) \/ BgInsert(j) \/ BgInsertFails(j) \/ BgSleep(j)

\* ---------------------------------------------------------------- polling service
\* PollingService.update_job
update_job(pj, job_id, status, message, result, error) ==
    IF job_id \in DOMAIN pj
    THEN LET job == pj[job_id]
             j1 == [job EXCEPT !.status = status, !.message = message]
             j2 == IF result # None THEN [j1 EXCEPT !.result = result] ELSE j1
             j3 == IF error # None THEN [j2 EXCEPT !.error = error] ELSE j2
         IN  [pj EXCEPT ![job_id] =
                 IF status \in {COMPLETED, FAILED}
                 THEN [j3 EXCEPT !.completed_at = Some("utcnow")] ELSE j3]
    ELSE pj

create_polling_job ==
    /\ Cardinality(DOMAIN jobs) < MaxPollJobs
    /\ LET id == Cardinality(DOMAIN jobs) + 1
       IN  /\ jobs' = (id :> [status |-> PENDING, message |-> "created",
                              completed_at |-> None, result |-> None, error |-> None]) @@ jobs
           /\ poll' = (id :> "created") @@ poll
    /\ UNCHANGED <<config, pdf, ck, processing_jobs, bg, db, resp, found>>

\* _process_job up to the await of the processor function
PollStart(j) ==
    /\ poll[j] = "created"
    /\ jobs' = update_job(jobs, j, PROCESSING, "processing", None, None)
    /\ poll' = [poll EXCEPT ![j] = "awaiting"]
    /\ UNCHANGED <<config, pdf, ck, processing_jobs, bg, db, resp, found>>

\* the processor function returns a result, or raises
PollFinish(j) ==
    /\ poll[j] = "awaiting"
    /\ \/ jobs' = update_job(jobs, j, COMPLETED, "completed", Some("result"), None)
       \/ jobs' = update_job(jobs, j, FAILED, "failed", None, Some("error"))
    /\ poll' = [poll EXCEPT ![j] = "done"]
    /\ UNCHANGED <<config, pdf, ck, processing_jobs, bg, db, resp, found>>

\* ---------------------------------------------------------------- synchronous ingestion
\* the first k chunks inserted one after the other with embeddings es
RECURSIVE InsertChunks(_, _, _, _, _, _)
InsertChunks(d, path, chunks, es, k, by) ==
    IF k = 0 THEN d
    ELSE insert_document_record(InsertChunks(d, path, chunks, es, k - 1, by),
                                path, chunks[k], es[k], by)

\* insert_document_with_chunks; the provider answers the first ok chunks with
\* es and raises on the next one when ok < Len(chunks)
insert_document_with_chunks(d, path, chunks, replace_existing, es, ok, by) ==
    LET d1 == IF replace_existing THEN delete_source_file(d, path) ELSE d
    IN  IF document_exists(d1, path) /\ get_document_vector_count(d1, path) > 0
           /\ ~replace_existing
        THEN [db |-> d1, out |-> "skipped"]
        ELSE [db  |-> InsertChunks(d1, path, chunks, es, ok, by),
              out |-> IF ok < Len(chunks) THEN "raises" ELSE "inserted"]

\* upsert_document_with_chunks
upsert_document_with_chunks(d, path, chunks, es, ok, by) ==
    LET existing_vector_count == get_document_vector_count(d, path)
        d1 == IF existing_vector_count > 0 THEN delete_source_file(d, path) ELSE d
        r  == insert_document_with_chunks(d1, path, chunks, FALSE, es, ok, by)
    IN  [db |-> r.db, out |-> r.out,
         action |-> IF existing_vector_count > 0 THEN "replaced" ELSE "created"]

NewResp(api, path, replace, outcome, count) ==
    [seq |-> resp.seq + 1, api |-> api, path |-> path, replace_existing |-> replace,
     existed |-> document_exists(db, path), outcome |-> outcome, chunks_count |-> count]

\* upload_and_vectorize_file_sync as a function of the store, the request
\* and the answers of the provider: the store it leaves and its response
sync_ingestion(d, path, doc, replace_existing, es, ok, by) ==
    LET r == process_file(doc)
    IN  CASE r.out = "hangs" -> [db |-> d, outcome |-> "hangs", chunks_count |-> 0]
          [] r.out = "raises" \/ r.chunks = <<>> ->
                [db |-> d, outcome |-> "error", chunks_count |-> 0]
          [] MultipleResultsFound(d, path) ->
                [db |-> d, outcome |-> "error", chunks_count |-> 0]
          [] get_document_vector_count(d, path) > 0 /\ ~replace_existing ->
                [db |-> d, outcome |-> "skipped", chunks_count |-> 0]
          [] OTHER ->
                LET u == IF replace_existing
                         THEN upsert_document_with_chunks(d, path, r.chunks, es, ok, by)
                         ELSE [action |-> "created"] @@
                              insert_document_with_chunks(d, path, r.chunks, FALSE, es, ok, by)
                IN  [db |-> u.db,
                     outcome |-> IF u.out = "raises" THEN "error" ELSE u.action,
                     chunks_count |-> Len(r.chunks)]

\* process_document_background run from start to end with no other writer
\* in between, as a function of the store, the request and the answers of
\* the provider: the store it leaves, the final status and chunks_created
background_ingestion(d, path, doc, replace_existing, es, ok, by) ==
    LET r == process_file(doc)
    IN  CASE r.out = "hangs" -> [db |-> d, status |-> PROCESSING, chunks_created |-> None]
          [] r.out = "raises" \/ r.chunks = <<>> ->
                [db |-> d, status |-> FAILED, chunks_created |-> None]
          [] MultipleResultsFound(d, path) ->
                [db |-> d, status |-> FAILED, chunks_created |-> None]
          [] get_document_vector_count(d, path) > 0 /\ ~replace_existing ->
                [db |-> d, status |-> FAILED, chunks_created |-> None]
          [] OTHER ->
                LET d1 == IF replace_existing THEN delete_source_file(d, path) ELSE d
                IN  [db |-> InsertChunks(d1, path, r.chunks, es, ok, by),
                     status |-> IF ok < Len(r.chunks) THEN FAILED ELSE COMPLETED,
                     chunks_created |-> IF ok < Len(r.chunks) THEN None
                                        ELSE Some(Len(r.chunks))]

\* GET /rag/job/{job_id}: the job, or 404 for an id that has no job
get_processing_status ==
    /\ \E job_id \in 1..(MaxJobs + 1) :
         LET job == get_processing_job(processing_jobs, job_id)
         IN  resp' = [job_id |-> job_id, job |-> job] @@
                     NewResp("job", "none", FALSE,
                             IF job = None THEN "not-found" ELSE "found", 0)
    /\ UNCHANGED <<config, pdf, ck, processing_jobs, bg, jobs, poll, db, found>>

\* the embeddings the provider returns for n chunks, and how many calls succeed
Answers(n) == {a \in [es : [1..n -> Emb], ok : 0..n] : TRUE}

\* POST /rag/upload-file-sync, the whole handler
upload_and_vectorize_file_sync ==
    /\ \E path \in Paths, doc \in Docs, replace \in BOOLEAN :
         LET r == process_file(doc)
             by == By("call", resp.seq + 1, path)
         IN  CASE r.out = "hangs" ->
                    /\ resp' = NewResp("sync", path, replace, "hangs", 0)
                    /\ UNCHANGED <<db, bg>>
               [] r.out = "raises" \/ r.chunks = <<>> ->
                    /\ resp' = NewResp("sync", path, replace, "error", 0)
                    /\ UNCHANGED <<db, bg>>
               [] MultipleResultsFound(db, path) ->
                    /\ resp' = NewResp("sync", path, replace, "error", 0)
                    /\ UNCHANGED <<db, bg>>
               [] OTHER ->
                    IF get_document_vector_count(db, path) > 0 /\ ~replace
                    THEN /\ resp' = NewResp("sync", path, replace, "skipped", 0)
                         /\ UNCHANGED <<db, bg>>
                    ELSE \E a \in Answers(Len(r.chunks)) :
                           LET u == IF replace
                                    THEN upsert_document_with_chunks(db, path, r.chunks, a.es, a.ok, by)
                                    ELSE [action |-> "created"] @@
                                         insert_document_with_chunks(db, path, r.chunks, FALSE, a.es, a.ok, by)
                           IN  /\ db' = u.db
                               /\ bg' = Disturb(bg, path, 0)
                               /\ resp' = NewResp("sync", path, replace,
                                              IF u.out = "raises" THEN "error" ELSE u.action,
                                              Len(r.chunks))
    /\ UNCHANGED <<config, pdf, ck, processing_jobs, jobs, poll, found>>

\* POST /rag/insert-text, the whole handler; the snippets are n chunks
insert_text_record ==
    /\ \E path \in Paths, n \in 0..2, replace \in BOOLEAN :
         LET chunks == [i \in 1..n |-> Slice(i - 1, i)]
             by == By("call", resp.seq + 1, path)
         IN  IF MultipleResultsFound(db, path)
             THEN /\ resp' = NewResp("insert-text", path, replace, "error", 0)
                  /\ UNCHANGED <<db, bg>>
             ELSE \E a \in Answers(n) :
               LET u == IF replace
                        THEN upsert_document_with_chunks(db, path, chunks, a.es, a.ok, by)
                        ELSE [action |-> "created"] @@
                             insert_document_with_chunks(db, path, chunks, FALSE, a.es, a.ok, by)
               IN  /\ db' = u.db
                   /\ bg' = Disturb(bg, path, 0)
                   /\ resp' = NewResp("insert-text", path, replace,
                                  IF u.out = "raises" THEN "error" ELSE u.action, n)
    /\ UNCHANGED <<config, pdf, ck, processing_jobs, jobs, poll, found>>

\* a processor that returns whatever the chunker gave, also no chunk at all
file_process_file_no_validation(doc) ==
    IF doc.kind = "raises" THEN [out |-> "raises", chunks |-> <<>>]
    ELSE LET c == chunk_text(doc.n)
         IN  IF c.hangs THEN [out |-> "hangs", chunks |-> <<>>]
             ELSE [out |-> "chunks", chunks |-> c.chunks]

\* DocumentProcessor.process_file of app/file: extraction raises, the text
\* has fewer than 10 characters or gives no chunk (both raise), the chunker
\* hangs, or the chunks are returned
file_process_file(doc) ==
    IF doc.kind \in {"raises", "short"} \/ doc.n = 0 THEN [out |-> "raises", chunks |-> <<>>]
    ELSE LET c == chunk_text(doc.n)
         IN  IF c.hangs THEN [out |-> "hangs", chunks |-> <<>>]
             ELSE [out |-> "chunks", chunks |-> c.chunks]

\* insert_document_with_chunks of app/file/rag_service: with replace_existing
\* the source file of the path and its chunks are deleted first; the source
\* file is created in the workspace, then each chunk is embedded and stored;
\* the provider raises on chunk ok + 1 when ok < Len(chunks)
RECURSIVE file_insert_chunks(_, _, _, _, _, _)
file_insert_chunks(d, source_file_id, chunks, es, k, by) ==
    IF k = 0 THEN d
    ELSE add_vector(file_insert_chunks(d, source_file_id, chunks, es, k - 1, by),
                    source_file_id, chunks[k], es[k], by)

file_insert_document_with_chunks(d, path, workspace_id, chunks, replace_existing, es, ok, by) ==
    LET d1 == IF replace_existing THEN delete_source_file(d, path) ELSE d
        d2 == add_source_file(d1, path, Some(workspace_id))
    IN  [db  |-> file_insert_chunks(d2, d1.next_file, chunks, es, ok, by),
         out |-> IF ok < Len(chunks) THEN "raises" ELSE "inserted"]

\* FileService.process_file, the task queued by POST /{workspace_id}/confirm-upload:
\* an existing path without replace_existing returns at once; the document is
\* extracted and chunked before anything is written
FileService_process_file ==
    /\ \E path \in Paths, doc \in Docs, ws \in Workspaces, replace \in BOOLEAN :
         LET r == file_process_file(doc)
             by == By("call", resp.seq + 1, path)
         IN  CASE MultipleResultsFound(db, path) ->
                    /\ resp' = NewResp("process-file", path, replace, "error", 0)
                    /\ UNCHANGED <<db, bg>>
               [] document_exists(db, path) /\ ~replace ->
                    /\ resp' = NewResp("process-file", path, replace, "skipped", 0)
                    /\ UNCHANGED <<db, bg>>
               [] r.out = "hangs" ->
                    /\ resp' = NewResp("process-file", path, replace, "hangs", 0)
                    /\ UNCHANGED <<db, bg>>
               [] r.out = "raises" ->
                    /\ resp' = NewResp("process-file", path, replace, "extraction", 0)
                    /\ UNCHANGED <<db, bg>>
               [] OTHER ->
                    \E a \in Answers(Len(r.chunks)) :
                       LET u == file_insert_document_with_chunks(db, path, ws, r.chunks,
                                                                 replace, a.es, a.ok, by)
                       IN  /\ db' = u.db
                           /\ bg' = Disturb(bg, path, 0)
                           /\ resp' = NewResp("process-file", path, replace,
                                          IF u.out = "raises" THEN "error" ELSE "created",
                                          Len(r.chunks))
    /\ UNCHANGED <<config, pdf, ck, processing_jobs, jobs, poll, found>>

\* DELETE /rag/file/{path}
delete_file ==
    /\ \E path \in Paths :
         IF MultipleResultsFound(db, path)
         THEN /\ resp' = NewResp("delete", path, FALSE, "error", 0)
              /\ UNCHANGED <<db, bg>>
         ELSE /\ db' = delete_source_file(db, path)
              /\ bg' = Disturb(bg, path, 0)
              /\ resp' = NewResp("delete", path, FALSE,
                             IF document_exists(db, path) THEN "deleted" ELSE "error", 0)
    /\ UNCHANGED <<config, pdf, ck, processing_jobs, jobs, poll, found>>

\* a delete whose first statement has lost its WHERE clause
delete_by_file_path_every_vector(d, path) ==
    [d EXCEPT !.source_files = @ \ FilesAt(d, path), !.vectors = {}]

\* SourceFileRepository.delete_by_file_path: DELETE FROM vectors of the source
\* files of the path, DELETE FROM source_files of the path, one commit
delete_by_file_path(d, path) ==
    [d EXCEPT !.source_files = @ \ FilesAt(d, path),
              !.vectors = @ \ VectorsAt(d, path)]

SourceFileRepository_delete_by_file_path ==
    /\ \E path \in Paths :
         /\ db' = delete_by_file_path(db, path)
         /\ bg' = Disturb(bg, path, 0)
         /\ resp' = NewResp("repo-delete", path, FALSE, "deleted", 0)
    /\ UNCHANGED <<config, pdf, ck, processing_jobs, jobs, poll, found>>

\* SourceFileRepository.create: the row is added and committed; a unique
\* constraint on file_path makes a second row of a path fail
SourceFileRepository_create ==
    /\ \E path \in Paths, ws \in Workspaces :
         IF document_exists(db, path) /\ unique_file_path
         THEN /\ resp' = NewResp("create-file", path, FALSE, "error", 0)
              /\ UNCHANGED <<db, bg>>
         ELSE /\ db' = add_source_file(db, path, Some(ws))
              /\ bg' = Disturb(bg, path, 0)
              /\ resp' = NewResp("create-file", path, FALSE, "created", 0)
    /\ UNCHANGED <<config, pdf, ck, processing_jobs, jobs, poll, found>>

\* the path of the source file of an id, "none" when no row has the id
PathOf(d, source_file_id) ==
    IF ForeignKeyHolds(d, source_file_id)
    THEN (CHOOSE s \in d.source_files : s.id = source_file_id).file_path
    ELSE "none"

\* VectorRepository.create: the row is added and committed; the foreign key
\* rejects a source_file_id that names no stored source file
VectorRepository_create ==
    /\ \E source_file_id \in 1..(db.next_file - 1), e \in VectorData :
         LET path == PathOf(db, source_file_id)
         IN  IF ForeignKeyHolds(db, source_file_id)
             THEN /\ db' = add_vector(db, source_file_id, Slice(0, 1), e,
                                      By("call", resp.seq + 1, path))
                  /\ bg' = Disturb(bg, path, 0)
                  /\ resp' = NewResp("create-vector", path, FALSE, "created", 1)
             ELSE /\ resp' = NewResp("create-vector", path, FALSE, "error", 0)
                  /\ UNCHANGED <<db, bg>>
    /\ UNCHANGED <<config, pdf, ck, processing_jobs, jobs, poll, found>>


\* ---------------------------------------------------------------- search
Abs(x) == IF x < 0 THEN -x ELSE x

\* the pgvector operator <=>
cosine_distance(a, b) == Abs(a - b)

\* 1 - distance, the similarity of the unhalved formula, in halves
cosine_similarity_unhalved(a, b) == MaxDistance - 2 * cosine_distance(a, b)

\* 1 - distance / 2.0, in halves: 2 is similarity 1.0, 1 is 0.5, 0 is 0.0
cosine_similarity(a, b) == MaxDistance - cosine_distance(a, b)

\* FROM vectors v JOIN source_files s ON s.id = v.source_file_id
Joined(d) ==
    {[v |-> v, s |-> s] : v \in d.vectors, s \in d.source_files} \cap
    {r \in [v : d.vectors, s : d.source_files] : r.s.id = r.v.source_file_id}

Perms(S) ==
    {f \in [1..Cardinality(S) -> S] : \A i, j \in 1..Cardinality(S) : i # j => f[i] # f[j]}

Limit(rows, limit) == SubSeq(rows, 1, Min(limit, Len(rows)))

\* a search result.  The names the implementations give the fields of a row
\* and of a result (id or vector_id, snippet or content_text) are not told
\* apart; by and owner are not fields of the result: they tell which row it
\* was made from and which workspace owns that row.
Result(r, q) ==
    [file_path |-> r.s.file_path, snippet |-> r.v.snippet,
     similarity |-> cosine_similarity(r.v.vector_data, q),
     by |-> r.v.by, owner |-> r.s.workspace_id]

\* ORDER BY <distance> DESC
ByDistance_desc(rows, q) ==
    {f \in Perms(rows) : \A i \in 1..(Cardinality(rows) - 1) :
        cosine_distance(f[i].v.vector_data, q) >= cosine_distance(f[i + 1].v.vector_data, q)}

\* the orders ORDER BY <distance> may return the rows in: ties in any order
ByDistance(rows, q) ==
    {f \in Perms(rows) : \A i \in 1..(Cardinality(rows) - 1) :
        cosine_distance(f[i].v.vector_data, q) <= cosine_distance(f[i + 1].v.vector_data, q)}

\* ORDER BY similarity DESC
BySimilarityDesc(rows, q) ==
    {f \in Perms(rows) : \A i \in 1..(Cardinality(rows) - 1) :
        cosine_similarity(f[i].v.vector_data, q) >= cosine_similarity(f[i + 1].v.vector_data, q)}

\* a search that returns the limited rows without the threshold
rag_search_unfiltered(ordered, q, limit, min_similarity) ==
    LET rows == Limit(ordered, limit)
    IN  [i \in 1..Len(rows) |-> Result(rows[i], q)]

\* RAGService.search_similar_vectors: ORDER BY distance LIMIT :limit in SQL,
\* then the rows with similarity >= min_similarity are kept
rag_search(ordered, q, limit, min_similarity) ==
    LET rows == Limit(ordered, limit)
        Keep(r) == cosine_similarity(r.v.vector_data, q) >= min_similarity
        kept == SelectSeq(rows, Keep)
    IN  [i \in 1..Len(kept) |-> Result(kept[i], q)]

\* VectorRepository.search_similar_vectors: the WHERE clause
repo_where(d, q, workspace_id, min_similarity) ==
    {r \in Joined(d) :
        /\ cosine_similarity(r.v.vector_data, q) >= min_similarity
        /\ workspace_id # None => r.s.workspace_id = workspace_id}

\* ... ORDER BY similarity DESC LIMIT {limit}
repo_search(ordered, q, limit) ==
    LET rows == Limit(ordered, limit)
    IN  [i \in 1..Len(rows) |-> Result(rows[i], q)]

Similarities == 0..MaxDistance

\* POST /rag/search and GET /rag/search/{query}
search_similar_content ==
    \E q \in Emb, limit \in 0..MaxLimit, min_similarity \in Similarities :
      \E ordered \in ByDistance(Joined(db), q) :
        /\ found' = [seq |-> found.seq + 1, api |-> "search", q |-> q, limit |-> limit,
                     min_similarity |-> min_similarity, workspace |-> None, filter |-> None,
                     results |-> rag_search(ordered, q, limit, min_similarity)]
        /\ UNCHANGED <<config, pdf, ck, processing_jobs, bg, jobs, poll, db, resp>>

\* src/app/api/chat.py:117 and 118: limit=3, min_similarity=0.5
chat_limit == 3
chat_min_similarity == 1

\* chat_stream.generate_stream: the context of a message of a chat of workspace ws
chat_stream ==
    \E q \in Emb, ws \in Workspaces :
      \E ordered \in ByDistance(Joined(db), q) :
        /\ found' = [seq |-> found.seq + 1, api |-> "chat", q |-> q, limit |-> chat_limit,
                     min_similarity |-> chat_min_similarity, workspace |-> Some(ws),
                     filter |-> None,
                     results |-> rag_search(ordered, q, chat_limit, chat_min_similarity)]
        /\ UNCHANGED <<config, pdf, ck, processing_jobs, bg, jobs, poll, db, resp>>

\* VectorRepository.search_similar_vectors with an optional workspace
VectorRepository_search ==
    \E q \in Emb, limit \in 0..MaxLimit, min_similarity \in Similarities,
       workspace_id \in {None} \cup {Some(w) : w \in Workspaces} :
      \E ordered \in BySimilarityDesc(repo_where(db, q, workspace_id, min_similarity), q) :
        /\ found' = [seq |-> found.seq + 1, api |-> "repository", q |-> q, limit |-> limit,
                     min_similarity |-> min_similarity, workspace |-> workspace_id,
                     filter |-> workspace_id,
                     results |-> repo_search(ordered, q, limit)]
        /\ UNCHANGED <<config, pdf, ck, processing_jobs, bg, jobs, poll, db, resp>>

\* ---------------------------------------------------------------- specification
NoResp == [seq |-> 0, api |-> "none", path |-> "none", replace_existing |-> FALSE,
           existed |-> FALSE, outcome |-> "none", chunks_count |-> 0]
NoFound == [seq |-> 0, api |-> "none", q |-> 0, limit |-> 0, min_similarity |-> 0,
            workspace |-> None, filter |-> None, results |-> <<>>]
NoTasks == [x \in {} |-> None]
IdleChunker == [pc |-> "off", n |-> 0, start |-> 0, chunks |-> <<>>]

Configs == {c \in (1..MaxChunkSize) \X (0..MaxChunkSize) : c[2] < c[1]}

InitChunk ==
    /\ \E c \in Configs : chunk_size = c[1] /\ chunk_overlap = c[2]
    /\ unique_file_path = TRUE
    /\ processing_jobs = NoTasks /\ bg = NoTasks /\ jobs = NoTasks /\ poll = NoTasks
    /\ db = EmptyDb /\ resp = NoResp /\ found = NoFound /\ pdf = NoPdf
    /\ \E n \in 0..MaxTextWords : ck = [pc |-> "idle", n |-> n, start |-> 0, chunks |-> <<>>]


NextChunk == ChunkCall \/ ChunkIterate

ChunkSpec == InitChunk /\ [][NextChunk]_vars

Init ==
    /\ \E c \in Configs : chunk_size = c[1] /\ chunk_overlap = c[2]
    /\ unique_file_path \in BOOLEAN
    /\ ck = IdleChunker
    /\ processing_jobs = NoTasks
    /\ bg = NoTasks
    /\ jobs = NoTasks
    /\ poll = NoTasks
    /\ db = EmptyDb
    /\ resp = NoResp
    /\ found = NoFound
    /\ pdf = NoPdf

\* a request of a client
Request ==
    \/ upload_and_vectorize_file
    \/ create_polling_job
    \/ upload_and_vectorize_file_sync
    \/ insert_text_record
    \/ FileService_process_file
    \/ delete_file
    \/ SourceFileRepository_delete_by_file_path
    \/ SourceFileRepository_create
    \/ VectorRepository_create

Next ==
    \/ Requests < MaxRequests /\ Request
    \/ \E j \in DOMAIN bg : BgStep(j)
    \/ \E j \in DOMAIN poll : PollStart(j)
    \/ \E j \in DOMAIN poll : PollFinish(j)

Spec == Init /\ [][Next]_vars

\* the store filled through the repositories, and searched
NextSearch ==
    \/ resp.seq < MaxStoreOps /\ (SourceFileRepository_create \/ VectorRepository_create)
    \/ found.seq < 1 /\ (search_similar_content \/ chat_stream \/ VectorRepository_search)

\* no document is chunked here: one configuration of the chunker is enough
InitSearch == Init /\ chunk_size = 1 /\ chunk_overlap = 0

SearchSpec == InitSearch /\ [][NextSearch]_vars

\* the store filled through the repositories, and deleted from
NextStore ==
    resp.seq < MaxStoreOps /\
        \/ SourceFileRepository_create
        \/ VectorRepository_create
        \/ delete_file
        \/ SourceFileRepository_delete_by_file_path

StoreSpec == InitSearch /\ [][NextStore]_vars

\* the job tracker: uploads, their background tasks, and a status request at
\* any moment (the request reads the table and changes nothing in it, so a
\* behaviour is followed up to its first status request)
NextJob ==
    \/ resp.seq = 0 /\ upload_and_vectorize_file
    \/ resp.seq = 0 /\ \E j \in DOMAIN bg : BgStep(j)
    \/ resp.seq = 0 /\ get_processing_status

\* the table of jobs does not depend on the schema of the store
InitJob == InitSearch /\ unique_file_path = TRUE

JobSpec == InitJob /\ [][NextJob]_vars

\* one PDF file read by one of the two processors
InitPdf ==
    /\ chunk_size = 1 /\ chunk_overlap = 0 /\ unique_file_path = TRUE
    /\ ck = IdleChunker
    /\ processing_jobs = NoTasks /\ bg = NoTasks /\ jobs = NoTasks /\ poll = NoTasks
    /\ db = EmptyDb /\ resp = NoResp /\ found = NoFound
    /\ \E file \in PdfFiles :
          pdf = [pc |-> "idle", file |-> file, methods |-> <<>>,
                 result |-> [out |-> "none", text |-> <<>>, tried |-> <<>>]]

NextPdf == services_extract \/ file_extract

PdfSpec == InitPdf /\ [][NextPdf]_vars

\* ---------------------------------------------------------------- claims
Terminal == {COMPLETED, FAILED}
Rank(st) == CASE st = PENDING -> 0 [] st = PROCESSING -> 1 [] OTHER -> 2
Forward(a, b) == Rank(a) <= Rank(b) /\ (a \in Terminal => b = a)

C2_ChunkerTerminates == ck.pc = "loop" => Len(ck.chunks) < ck.n

\* C3: a started background task that has not yet brought its job to
\* COMPLETED or FAILED can take a step (every step moves the task forward, so
\* under fair scheduling the job then reaches a terminal status).
C3_JobReachesTerminal ==
    \A j \in DOMAIN bg :
        bg[j].pc # "queued" =>
            \/ processing_jobs[j].status \in Terminal
            \/ ENABLED BgStep(j)

JobCompletes(j) ==
    processing_jobs[j].status # COMPLETED /\ processing_jobs'[j].status = COMPLETED

\* the path holds one source file and exactly the chunks written by `by`
HoldsExactly(d, path, by, chunks) ==
    /\ Cardinality(FilesAt(d, path)) = 1
    /\ Cardinality(VectorsAt(d, path)) = Len(chunks)
    /\ {v.snippet : v \in VectorsAt(d, path)} = {chunks[k] : k \in 1..Len(chunks)}
    /\ \A v \in d.vectors : v.by.path = path => v.by = by

IngestApis == {"sync", "insert-text"}

C5_ConflictIsError ==
    /\ \A j \in DOMAIN bg :
          (bg[j].existed /\ ~bg[j].replace_existing) => processing_jobs[j].status = FAILED
    /\ (resp.api \in IngestApis /\ resp.existed /\ ~resp.replace_existing)
          => resp.outcome = "error"

\* the step is one of task j
StepOf(j) == bg'[j].pc # bg[j].pc \/ bg'[j].total_processed # bg[j].total_processed

\* C6: no step of an ingestion that found the path in the store and has
\* replace_existing false changes the store.
C6_ConflictLeavesStore ==
    [][/\ \A j \in DOMAIN bg :
            (StepOf(j) /\ bg'[j].existed /\ ~bg[j].replace_existing) => db' = db
       /\ (resp'.seq # resp.seq /\ resp'.api \in IngestApis /\ resp'.existed
            /\ ~resp'.replace_existing) => db' = db]_vars

\* C7: every chunk returned for a request made in workspace W is owned by a
\* source file whose workspace_id is W, on every search entry point
C7_WorkspaceIsolation ==
    \A i \in 1..Len(found.results) :
        found.workspace # None => found.results[i].owner = found.workspace

\* C8: every returned result has similarity >= min_similarity, and the results
\* are in non-increasing order of similarity
C8_ThresholdAndOrder ==
    /\ \A i \in 1..Len(found.results) : found.results[i].similarity >= found.min_similarity
    /\ \A i \in 1..(Len(found.results) - 1) :
           found.results[i].similarity >= found.results[i + 1].similarity

C8_Witness ==
    /\ Len(found.results) = 2
    /\ found.results[1].similarity > found.results[2].similarity
    /\ found.min_similarity > 0
    /\ \E r \in Joined(db) : cosine_similarity(r.v.vector_data, found.q) < found.min_similarity

\* the stored chunks that meet the threshold and the workspace filter of a search
Qualifying(d, f) ==
    {r \in Joined(d) :
        /\ cosine_similarity(r.v.vector_data, f.q) >= f.min_similarity
        /\ f.filter # None => r.s.workspace_id = f.filter}

\* C9: a search returns exactly min(limit, q) results, q the number of stored
\* chunks meeting the threshold and the workspace filter, and no omitted
\* qualifying chunk has a strictly higher similarity than a returned one
C9_TopResults ==
    [][found'.seq # found.seq =>
        LET q == Qualifying(db, found')
            res == found'.results
        IN  /\ Len(res) = Min(found'.limit, Cardinality(q))
            /\ \A i, j \in 1..Len(res) : i # j => res[i] # res[j]
            /\ \A i \in 1..Len(res) : \E r \in q : Result(r, found'.q) = res[i]
            /\ \A r \in q :
                   (\A i \in 1..Len(res) : res[i] # Result(r, found'.q)) =>
                   \A i \in 1..Len(res) :
                       cosine_similarity(r.v.vector_data, found'.q) <= res[i].similarity]_vars

\* LIMIT cut off a qualifying chunk of lower similarity than the one returned,
\* and the threshold removed another chunk
C9_Witness ==
    /\ found.api = "search"
    /\ found.limit = 1
    /\ Len(found.results) = 1
    /\ found.min_similarity > 0
    /\ \E r \in Qualifying(db, found) :
           cosine_similarity(r.v.vector_data, found.q) < found.results[1].similarity
    /\ Cardinality(Joined(db)) > Cardinality(Qualifying(db, found))

\* C10: a COMPLETED job reports the number of chunks the chunker produced for
\* its document, and, when no other writer of the path was at work while the
\* task ran, that is the vector count of the path when the job completes.
C10_ChunksCreated ==
    [][\A j \in DOMAIN bg :
          processing_jobs'[j].status = COMPLETED =>
             /\ processing_jobs'[j].chunks_created = Some(Len(process_file(bg[j].doc).chunks))
             /\ (JobCompletes(j) /\ ~bg'[j].disturbed) =>
                   get_document_vector_count(db', bg[j].path) = Len(bg[j].chunks)]_vars

C10_Witness ==
    \E j \in DOMAIN bg :
        /\ processing_jobs[j].status = COMPLETED /\ ~bg[j].disturbed
        /\ processing_jobs[j].chunks_created = Some(2)
        /\ get_document_vector_count(db, bg[j].path) = 2

\* the rows of vectors written by background job j
WrittenBy(d, j) == {v \in d.vectors : v.by = By("job", j, bg[j].path)}

\* the step fails job j while it embeds or inserts a chunk
FailsAtChunk(j) ==
    /\ bg[j].pc \in {"insert", "embed"}
    /\ processing_jobs[j].status # FAILED
    /\ processing_jobs'[j].status = FAILED

\* C11: when embedding or insertion fails for chunk k of a background job,
\* the job becomes FAILED and the step changes nothing in the store; with no
\* other writer of the path at work meanwhile, the rows written by the job
\* are then exactly chunks 1..k-1 under the source file of the path; and no
\* step adds a row of a FAILED job.
C11_PartialWritesKept ==
    [][\A j \in DOMAIN bg :
          /\ FailsAtChunk(j) =>
                /\ db' = db
                /\ bg'[j].pc = "done"
                /\ ~bg[j].disturbed =>
                      /\ {v.snippet : v \in WrittenBy(db', j)}
                             = {bg[j].chunks[i] : i \in 1..bg[j].total_processed}
                      /\ Cardinality(WrittenBy(db', j)) = bg[j].total_processed
                      /\ WrittenBy(db', j) \subseteq VectorsAt(db', bg[j].path)
          /\ processing_jobs[j].status = FAILED => WrittenBy(db', j) \subseteq WrittenBy(db, j)]_vars

\* a job failed at its second chunk of three and its first chunk is stored
C11_Witness ==
    \E j \in DOMAIN bg :
        /\ processing_jobs[j].status = FAILED
        /\ processing_jobs[j].error_details = Some("provider")
        /\ ~bg[j].disturbed
        /\ bg[j].total_processed = 1 /\ Len(bg[j].chunks) = 3
        /\ Cardinality(WrittenBy(db, j)) = 1

\* C12: an ingestion whose extraction fails, for a path that is not in the
\* store, ends with the extraction error and its step leaves the store as it
\* was: the background job becomes FAILED with the extraction error, the
\* synchronous upload and FileService.process_file answer with the error.
C12_ExtractionFailureWritesNothing ==
    [][/\ \A j \in DOMAIN bg :
            (bg[j].pc = "queued" /\ bg'[j].pc # "queued" /\ bg[j].doc.kind = "raises"
               /\ ~document_exists(db, bg[j].path))
              => /\ processing_jobs'[j].status = FAILED
                 /\ processing_jobs'[j].error_details = Some("extraction")
                 /\ bg'[j].pc = "done"
                 /\ db' = db
       /\ (resp'.seq # resp.seq /\ ~resp'.existed
             /\ \/ resp'.api = "process-file" /\ resp'.outcome = "extraction"
                \/ resp'.api = "sync" /\ resp'.outcome = "error" /\ resp'.chunks_count = 0)
              => /\ db' = db
                 /\ ~document_exists(db', resp'.path)
                 /\ get_document_vector_count(db', resp'.path) = 0]_vars

\* a job and a call of FileService.process_file both ended with the
\* extraction error, for paths that are not in the store
C12_Witness ==
    /\ \E j \in DOMAIN bg :
          /\ processing_jobs[j].status = FAILED
          /\ processing_jobs[j].error_details = Some("extraction")
          /\ ~document_exists(db, bg[j].path)
    /\ resp.api = "process-file" /\ resp.outcome = "extraction" /\ ~resp.existed
    /\ ~document_exists(db, resp.path)

\* no background ingestion of the path is at work
NoIngestionOf(path) == \A j \in DOMAIN bg : bg[j].path = path => ~Running(bg[j])

\* the step is a call of delete_by_path: DELETE /rag/file/{path} over
\* RAGService.delete_source_file, or SourceFileRepository.delete_by_file_path
DeleteReturns ==
    /\ resp'.seq # resp.seq
    /\ \/ resp'.api = "repo-delete"
       \/ resp'.api = "delete" /\ ~MultipleResultsFound(db, resp'.path)

\* C13: when a delete of path p returns, with no ingestion of p in progress,
\* p is not in the store and has no vectors, and the source files and the
\* vectors of every other path are as before; for an absent p the store is
\* unchanged and RAGService.delete_source_file reports false.
C13_DeleteFrame ==
    [][(DeleteReturns /\ NoIngestionOf(resp'.path)) =>
         LET p == resp'.path
         IN  /\ ~document_exists(db', p)
             /\ get_document_vector_count(db', p) = 0
             /\ {s \in db'.source_files : s.file_path # p}
                    = {s \in db.source_files : s.file_path # p}
             /\ db'.vectors = db.vectors \ VectorsAt(db, p)
             /\ \A q \in Paths \ {p} : VectorsAt(db', q) = VectorsAt(db, q)
             /\ resp'.api = "delete" => (resp'.outcome = "deleted" <=> resp'.existed)
             /\ ~resp'.existed => db' = db]_vars

\* a path was deleted and is gone, and the source file and the vector of
\* another path are there
C13_Witness ==
    /\ resp.api \in {"delete", "repo-delete"} /\ resp.existed /\ resp.outcome = "deleted"
    /\ ~document_exists(db, resp.path)
    /\ db.next_file = 3
    /\ \E q \in Paths \ {resp.path} :
          document_exists(db, q) /\ get_document_vector_count(db, q) = 1

\* the words a chunk holds, as the sequence of their positions in the text
WordsOf(chunk) == [k \in 1..(chunk[2] - chunk[1] + 1) |-> chunk[1] + k - 1]

\* a chunk without its first chunk_overlap words
WithoutOverlap(chunk) == <<chunk[1] + chunk_overlap, chunk[2]>>

\* the first chunk, then every later chunk without its overlapping prefix
RECURSIVE Reconstruct(_)
Reconstruct(chunks) ==
    IF Len(chunks) = 0 THEN <<>>
    ELSE IF Len(chunks) = 1 THEN WordsOf(chunks[1])
    ELSE Reconstruct(SubSeq(chunks, 1, Len(chunks) - 1))
            \o WordsOf(WithoutOverlap(chunks[Len(chunks)]))

\* C14: for the text and the configuration of a call, chunk_text returns
\* chunks in which every word of the text appears, and which give back the
\* word sequence of the text when the overlapping prefix of each later chunk
\* is removed.
C14_ChunksReconstructText ==
    ck.pc \in {"loop", "done"} =>
        LET c == chunk_text(ck.n)
        IN  /\ ~c.hangs
            /\ \A w \in 1..ck.n :
                   \E i \in 1..Len(c.chunks) : c.chunks[i][1] <= w /\ w <= c.chunks[i][2]
            /\ Reconstruct(c.chunks) = [w \in 1..ck.n |-> w]

\* the document of task t is a text of N words with S < N <= 2S - O
TwoChunkText(t) ==
    /\ t.doc.kind = "text"
    /\ chunk_size < t.doc.n
    /\ t.doc.n <= 2 * chunk_size - chunk_overlap

\* C15: a background job for a text of N words, S < N <= 2S - O, that has
\* started has chunked the text into exactly words 1..S and words S-O+1..N,
\* its status is PROCESSING until it ends, and when no conflict and no
\* failure of the provider or the store ends it, it ends COMPLETED with
\* chunks_created = 2.
C15_TwoChunkScenario ==
    \A j \in DOMAIN bg :
        (TwoChunkText(bg[j]) /\ bg[j].pc # "queued") =>
            /\ bg[j].pc # "hung"
            /\ bg[j].chunks = <<Slice(0, chunk_size),
                                Slice(chunk_size - chunk_overlap, bg[j].doc.n)>>
            /\ bg[j].pc # "done" => processing_jobs[j].status = PROCESSING
            /\ bg[j].pc = "done" =>
                  \/ /\ processing_jobs[j].status = COMPLETED
                     /\ processing_jobs[j].chunks_created = Some(2)
                  \/ /\ processing_jobs[j].status = FAILED
                     /\ processing_jobs[j].error_details
                            \in {Some("conflict"), Some("provider"), Some("store")}

\* C16: in every state, a job of either tracker has completed_at set exactly
\* when its status is COMPLETED or FAILED (every step that makes a status
\* terminal stamps the completion time in that same step).
C16_CompletedAtIffTerminal ==
    /\ \A j \in DOMAIN processing_jobs :
          processing_jobs[j].completed_at # None <=> processing_jobs[j].status \in Terminal
    /\ \A j \in DOMAIN jobs :
          jobs[j].completed_at # None <=> jobs[j].status \in Terminal

\* a stamped COMPLETED job next to an unstamped job that is still PROCESSING
C16_Witness ==
    \E i, j \in DOMAIN processing_jobs :
        /\ processing_jobs[i].status = COMPLETED
        /\ processing_jobs[i].completed_at = Some("utcnow")
        /\ processing_jobs[j].status = PROCESSING
        /\ processing_jobs[j].completed_at = None

\* C17: in every state, a FAILED job has error_details set and chunks_created
\* unset, a COMPLETED job has chunks_created set and error_details unset, and
\* a PENDING or PROCESSING job has neither.
C17_ResultFieldsMatchStatus ==
    \A j \in DOMAIN processing_jobs :
        LET job == processing_jobs[j]
        IN  /\ job.status = FAILED =>
                  job.error_details # None /\ job.chunks_created = None
            /\ job.status = COMPLETED =>
                  job.chunks_created # None /\ job.error_details = None
            /\ job.status \in {PENDING, PROCESSING} =>
                  job.error_details = None /\ job.chunks_created = None

\* a job that failed after it had stored a chunk, next to a completed job
C17_Witness ==
    \E i, j \in DOMAIN processing_jobs :
        /\ processing_jobs[i].status = FAILED
        /\ processing_jobs[i].error_details # None
        /\ bg[i].total_processed > 0
        /\ processing_jobs[j].status = COMPLETED
        /\ processing_jobs[j].chunks_created # None

\* C18: in every state, at most one source file is stored for any path.
C18_OneSourceFilePerPath ==
    \A path \in Paths : Cardinality(FilesAt(db, path)) <= 1

\* C19: in every state, every stored vector references exactly one source
\* file, and that source file is stored.
C19_VectorsHaveSourceFile ==
    \A v \in db.vectors :
        Cardinality({s \in db.source_files : s.id = v.source_file_id}) = 1

\* the source file a job had selected for its second chunk was deleted while
\* the job awaited the embedding: the insert was rejected and the job failed
C19_Witness ==
    \E j \in DOMAIN bg :
        /\ processing_jobs[j].status = FAILED
        /\ processing_jobs[j].error_details = Some("store")
        /\ bg[j].total_processed = 1
        /\ bg[j].source_file_id # 0
        /\ ~ForeignKeyHolds(db, bg[j].source_file_id)
        /\ resp.api \in {"delete", "repo-delete"} /\ resp.path = bg[j].path

\* the snippets are the first chunks of a document, with none left out: each
\* starts the text or follows on a stored chunk, overlap words before its end
\* (the snippets of POST /rag/insert-text are given word by word, no overlap)
IsPrefix(snippets, overlap) ==
    \A c \in snippets :
        c[1] = 1 \/ \E b \in snippets : b[2] + 1 - overlap = c[1] /\ b[1] < c[1]

\* C20: a step of a background job stores at most one chunk, the one that
\* follows the chunks it has stored so far; while the job is at work, with no
\* other writer of the path at work, its stored rows are at every moment
\* exactly its first total_processed chunks; and the rows a synchronous ingestion leaves, also
\* when it fails part way, are the first chunks of its document.
C20_ChunksInIndexOrder ==
    [][/\ \A j \in DOMAIN bg :
            /\ \A v \in WrittenBy(db', j) \ WrittenBy(db, j) :
                  /\ bg'[j].total_processed = bg[j].total_processed + 1
                  /\ v.snippet = bg[j].chunks[bg'[j].total_processed]
                  /\ WrittenBy(db', j) = WrittenBy(db, j) \cup {v}
            /\ (Running(bg[j]) /\ ~bg'[j].disturbed) =>
                  /\ {v.snippet : v \in WrittenBy(db', j)}
                         = {bg'[j].chunks[i] : i \in 1..bg'[j].total_processed}
                  /\ Cardinality(WrittenBy(db', j)) = bg'[j].total_processed
       /\ (resp'.seq # resp.seq /\ resp'.api \in IngestApis \cup {"process-file"}) =>
             IsPrefix({v.snippet : v \in {u \in db'.vectors :
                                            u.by = By("call", resp'.seq, resp'.path)}},
                      IF resp'.api = "insert-text" THEN 0 ELSE chunk_overlap)]_vars

\* a job at work on a document of three chunks has stored the first two
C20_Witness ==
    \E j \in DOMAIN bg :
        /\ processing_jobs[j].status = PROCESSING
        /\ Len(bg[j].chunks) = 3 /\ bg[j].total_processed = 2
        /\ ~bg[j].disturbed
        /\ {v.snippet : v \in WrittenBy(db, j)} = {bg[j].chunks[1], bg[j].chunks[2]}

Statuses == {PENDING, PROCESSING, COMPLETED, FAILED}

\* C21: a job, once created, stays in the table under its id as the same job;
\* a status request returns the job of the id, and not-found for an id that
\* has no job, and changes nothing; a step changes at most one job, and the
\* step that creates a job changes no other; update_job_status changes no
\* job but the one of its id, and nothing at all for an unknown id.
C21_JobTableFrame ==
    [][/\ \A j \in DOMAIN processing_jobs :
            /\ j \in DOMAIN processing_jobs'
            /\ processing_jobs'[j].file_name = processing_jobs[j].file_name
       /\ Cardinality({j \in DOMAIN processing_jobs :
                          processing_jobs'[j] # processing_jobs[j]}) <= 1
       /\ DOMAIN processing_jobs' # DOMAIN processing_jobs =>
             \A j \in DOMAIN processing_jobs : processing_jobs'[j] = processing_jobs[j]
       /\ (resp'.seq # resp.seq /\ resp'.api = "job") =>
             /\ processing_jobs' = processing_jobs
             /\ resp'.job_id \in DOMAIN processing_jobs =>
                   resp'.job = Some(processing_jobs[resp'.job_id])
             /\ resp'.job_id \notin DOMAIN processing_jobs => resp'.job = None
       /\ processing_jobs' # processing_jobs =>
             \A id \in 1..(MaxJobs + 1), st \in Statuses :
                LET u == update_job_status(processing_jobs', id, st, "update",
                                           [error_details |-> Some("update")])
                IN  /\ DOMAIN u = DOMAIN processing_jobs'
                    /\ \A k \in DOMAIN u \ {id} : u[k] = processing_jobs'[k]]_vars

\* the second job has completed, the first is still PENDING, and a status
\* request for the second job has returned it
C21_Witness ==
    /\ DOMAIN processing_jobs = {1, 2}
    /\ processing_jobs[1].status = PENDING
    /\ processing_jobs[2].status = COMPLETED
    /\ resp.api = "job" /\ resp.job_id = 2 /\ resp.job = Some(processing_jobs[2])

\* the chunker returns no chunk for the document of task t
ZeroChunks(t) ==
    /\ t.doc.kind = "text"
    /\ ~chunk_text(t.doc.n).hangs
    /\ chunk_text(t.doc.n).chunks = <<>>

\* C22: a background job whose document gives zero chunks becomes FAILED in
\* the step that chunks it, and the step writes nothing; no job is COMPLETED
\* with zero chunks; a synchronous upload or FileService.process_file never
\* answers with a success for zero chunks, and a call that ends with zero
\* chunks has written nothing.
C22_ZeroChunksFail ==
    [][/\ \A j \in DOMAIN bg :
            /\ (bg[j].pc = "queued" /\ bg'[j].pc # "queued" /\ ZeroChunks(bg[j])) =>
                  /\ processing_jobs'[j].status = FAILED
                  /\ bg'[j].pc = "done"
                  /\ db' = db
            /\ processing_jobs'[j].status = COMPLETED =>
                  /\ processing_jobs'[j].chunks_created # Some(0)
                  /\ ~ZeroChunks(bg[j])
       /\ (resp'.seq # resp.seq /\ resp'.api \in {"sync", "process-file"}) =>
             /\ resp'.outcome \in {"created", "replaced"} => resp'.chunks_count > 0
             /\ resp'.chunks_count = 0 => db' = db]_vars

\* a job for an empty text has failed, and so has a synchronous call
C22_Witness ==
    /\ \E j \in DOMAIN bg :
          /\ ZeroChunks(bg[j])
          /\ processing_jobs[j].status = FAILED
          /\ processing_jobs[j].error_details = Some("empty")
    /\ resp.api \in {"sync", "process-file"}
    /\ resp.chunks_count = 0 /\ resp.outcome \in {"error", "extraction"}
    /\ db = EmptyDb

\* C23: a background job whose document has fewer than 10 characters of text
\* never stores a row and never becomes COMPLETED: once it has chunked the
\* document it is FAILED.
C23_ShortTextFails ==
    \A j \in DOMAIN bg :
        bg[j].doc.kind = "short" =>
            /\ WrittenBy(db, j) = {}
            /\ processing_jobs[j].status # COMPLETED
            /\ bg[j].pc # "queued" => processing_jobs[j].status = FAILED

\* the synchronous outcome s and the end b of the job tell the same
Agree(s, b) ==
    /\ s.db = b.db
    /\ s.outcome \in {"created", "replaced"} <=> b.status = COMPLETED
    /\ s.outcome = "error" <=> b.status = FAILED
    /\ b.status = COMPLETED => b.chunks_created = Some(s.chunks_count)

\* C24: whenever the synchronous ingestion answers, a background job given
\* the same store, the same file, the same replace_existing and the same
\* answers of the provider leaves the same store, is COMPLETED exactly when
\* the synchronous call succeeded and FAILED exactly when it failed, with
\* the same chunk count on success.
C24_SyncAgreesWithJob ==
    [][(resp'.seq # resp.seq /\ resp'.api = "sync") =>
         \A doc \in Docs : \A a \in Answers(Len(process_file(doc).chunks)) :
            LET by == By("call", resp'.seq, resp'.path)
                s == sync_ingestion(db, resp'.path, doc, resp'.replace_existing, a.es, a.ok, by)
                b == background_ingestion(db, resp'.path, doc, resp'.replace_existing, a.es, a.ok, by)
            IN  (s.db = db' /\ s.outcome = resp'.outcome /\ s.chunks_count = resp'.chunks_count)
                    => Agree(s, b)]_vars

\* C25: for every distance d of 0..2 the similarity 1 - d / 2 (here in
\* halves, 0..2 for 0.0..1.0) lies in [0, 1], is 1 at d = 0 and 0 at d = 2,
\* and is strictly decreasing in d, so that the orders by distance ascending
\* of the stored rows are the orders by similarity descending.
C25_SimilarityOfDistance ==
    \A q \in Emb :
        /\ \A a \in VectorData :
              LET d == cosine_distance(a, q)
                  sim == cosine_similarity(a, q)
              IN  /\ d \in 0..MaxDistance
                  /\ sim \in 0..MaxDistance
                  /\ d = 0 <=> sim = MaxDistance
                  /\ d = MaxDistance <=> sim = 0
        /\ \A a, b \in VectorData :
              cosine_distance(a, q) < cosine_distance(b, q)
                  <=> cosine_similarity(a, q) > cosine_similarity(b, q)
        /\ ByDistance(Joined(db), q) = BySimilarityDesc(Joined(db), q)

\* a search returned an identical chunk with similarity 1.0 before an
\* opposite chunk with similarity 0.0
C25_Witness ==
    /\ found.api = "search"
    /\ Len(found.results) = 2
    /\ found.results[1].similarity = MaxDistance
    /\ found.results[2].similarity = 0
    /\ \E r1, r2 \in Joined(db) :
          /\ cosine_distance(r1.v.vector_data, found.q) = 0
          /\ cosine_distance(r2.v.vector_data, found.q) = MaxDistance

\* C26: once two background jobs of the same path have both terminated, the
\* chunks stored under the path by the two jobs are chunks of one of them
\* only: rows written by the one and rows written by the other never stand
\* together under the path.
C26_ChunksOfOneJob ==
    \A j1, j2 \in DOMAIN bg :
        (/\ j1 # j2
         /\ bg[j1].path = bg[j2].path
         /\ bg[j1].pc = "done" /\ bg[j2].pc = "done")
        => LET writers == {v.by : v \in VectorsAt(db, bg[j1].path)}
           IN  ~(By("job", j1, bg[j1].path) \in writers /\ By("job", j2, bg[j2].path) \in writers)

\* C27: a background job checks the path, and deletes the old source file
\* of a replace, before it extracts and chunks the document: at the check
\* and at the deletion the job holds no chunks yet, and a job that reported
\* the conflict has never extracted.
C27_CheckBeforeExtract ==
    \A j \in DOMAIN bg :
        /\ bg[j].pc \in {"count", "delete"} => bg[j].chunks = <<>>
        /\ processing_jobs[j].error_details = Some("conflict") => bg[j].chunks = <<>>

\* C28: the chunks of a text of more than chunk_size words: chunk i (from 0)
\* starts at word i * (chunk_size - chunk_overlap) and holds chunk_size words,
\* or the words that remain from its start; two consecutive chunks share
\* chunk_overlap words; and no chunk follows the first chunk that reaches
\* the last word of the text.
C28_ChunkWindows ==
    ck.n > chunk_size =>
        \A k \in 1..Len(ck.chunks) :
            LET start == (k - 1) * (chunk_size - chunk_overlap)
            IN  /\ ck.chunks[k] = Slice(start, start + Min(chunk_size, ck.n - start))
                /\ k < Len(ck.chunks) =>
                      /\ ck.chunks[k][2] - ck.chunks[k + 1][1] + 1 = chunk_overlap
                      /\ ck.chunks[k][2] < ck.n

\* C29: a background job calls get_embedding at most once for a chunk; a
\* failure while a chunk is embedded or inserted ends the task with the job
\* FAILED; and no step of a FAILED job calls get_embedding or adds a row of
\* the job to the store.
C29_NoRetryAfterFailure ==
    [][\A j \in DOMAIN bg :
          /\ \A a, b \in 1..Len(bg'[j].calls) : a # b => bg'[j].calls[a] # bg'[j].calls[b]
          /\ FailsAtChunk(j) => bg'[j].pc = "done" /\ bg'[j].calls = bg[j].calls
          /\ processing_jobs[j].status = FAILED =>
                /\ bg'[j].calls = bg[j].calls
                /\ WrittenBy(db', j) \subseteq WrittenBy(db, j)]_vars

\* the provider failed on chunk 2 of 3: two calls, one row, job FAILED
C29_Witness ==
    \E j \in DOMAIN bg :
        /\ processing_jobs[j].status = FAILED
        /\ processing_jobs[j].error_details = Some("provider")
        /\ bg[j].calls = <<1, 2>> /\ Len(bg[j].chunks) = 3
        /\ Cardinality(WrittenBy(db, j)) = 1
        /\ bg[j].pc = "done"

\* the library opens the file and gathers text from it
MethodOk(file, m) == file.opens[m] /\ PagesText(file, m) # <<>>

\* C30: a PDF extraction tries its first method first and a later method
\* exactly when every method before it raised or gathered only whitespace;
\* it returns the text of the first method that gathers text, from every
\* page that method has text for (a page that fails is skipped), never a
\* text without content; and it raises exactly when every method fails.
C30_PdfExtraction ==
    pdf.pc = "done" =>
        LET r == pdf.result
            file == pdf.file
            Fails(k) == ~MethodOk(file, pdf.methods[k])
        IN  /\ \A k \in 1..Len(pdf.methods) :
                  (k <= Len(r.tried) /\ r.tried[k] = pdf.methods[k])
                      <=> \A i \in 1..(k - 1) : Fails(i)
            /\ r.out = "raises" <=> \A k \in 1..Len(pdf.methods) : Fails(k)
            /\ r.out = "text" =>
                  /\ r.text # <<>>
                  /\ r.text = PagesText(file, r.tried[Len(r.tried)])

====
